---- MODULE Spec2Model ----
(***************************************************************************)
(* The structured-extraction pipeline of image-parse: the POST /api/extract *)
(* route handler (the extraction gateway) and the ImageOCR client session   *)
(* that calls it.                                                           *)
(*                                                                          *)
(* JavaScript values are tagged records, so that a value of the wrong type  *)
(* (a number where a string is expected, null, undefined) is a value the    *)
(* model can hold.  Strings are TLA+ strings; includes and startsWith are   *)
(* computed on their characters.                                            *)
(***************************************************************************)
EXTENDS Integers, Sequences, FiniteSets, TLC

---------------------------------------------------------------------------
(* JavaScript values                                                       *)

Undef == [t |-> "undefined"]
Null == [t |-> "null"]
Str(s) == [t |-> "string", v |-> s]
Num(k) == [t |-> "number", n |-> k]
Obj(fields) == [t |-> "object", f |-> fields]
ErrorObj(m) == [t |-> "error", message |-> m]

\* !x is FALSE exactly for the truthy values
Truthy(x) ==
  CASE x.t = "undefined" -> FALSE
    [] x.t = "null" -> FALSE
    [] x.t = "string" -> x.v # ""
    [] x.t = "number" -> x.n # 0
    [] OTHER -> TRUE

\* String.prototype.includes
includes(s, sub) ==
  \E i \in 1..(Len(s) - Len(sub) + 1) : SubSeq(s, i, i + Len(sub) - 1) = sub

\* String.prototype.startsWith
startsWith(s, prefix) ==
  Len(s) >= Len(prefix) /\ SubSeq(s, 1, Len(prefix)) = prefix

---------------------------------------------------------------------------
(* The output schemas (zod)                                                *)

ZString == [z |-> "string"]
ZEnum(options) == [z |-> "enum", options |-> options]
ZAnyOptional == [z |-> "any"]

Purposes == {"Conveyance", "Train", "Bus", "Food", "Hotel", "Project Expense", "Other"}

\* the expense schema of the expense-tracking route
extractedDataSchema ==
  [bill_no |-> ZString, amount |-> ZString, purpose |-> ZEnum(Purposes),
   raw_text |-> ZString]

\* the schema of src/app/api/extract/route.ts
extractedDataSchemaRoute ==
  [document_type |-> ZString, raw_text |-> ZString, structured_data |-> ZAnyOptional]

\* one field against its zod type: z.string() accepts every string, the empty
\* one included; z.enum accepts the listed literals; z.any().optional() anything
zodAccepts(spec, present, value) ==
  CASE spec.z = "string" -> present /\ value.t = "string"
    [] spec.z = "enum" -> present /\ value.t = "string" /\ value.v \in spec.options
    [] OTHER -> TRUE

zodValid(schema, candidate) ==
  /\ candidate.t = "object"
  /\ \A k \in DOMAIN schema :
       zodAccepts(schema[k], k \in DOMAIN candidate.f,
                  IF k \in DOMAIN candidate.f THEN candidate.f[k] ELSE Undef)

\* variant: an empty string replaced by a default
zodParsedDefaulting(schema, candidate) ==
  Obj([k \in (DOMAIN schema) \cap (DOMAIN candidate.f) |->
         IF candidate.f[k] = Str("") THEN Str("N/A") ELSE candidate.f[k]])

\* the parsed object: the schema's keys, each value as the model gave it
zodParsed(schema, candidate) ==
  Obj([k \in (DOMAIN schema) \cap (DOMAIN candidate.f) |-> candidate.f[k]])

---------------------------------------------------------------------------
(* The model provider: generateObject                                      *)

NoObjectMessage == "No object generated: response did not match schema."

\* the provider call settles with a return value or a thrown value
generateObject(schema, outcome) ==
  CASE outcome.kind = "text" ->
         IF zodValid(schema, outcome.out)
         THEN [ok |-> TRUE, object |-> zodParsed(schema, outcome.out)]
         ELSE [ok |-> FALSE, error |-> ErrorObj(Str(NoObjectMessage))]
    [] outcome.kind = "noObject" -> [ok |-> TRUE, object |-> Undef]
    [] OTHER -> [ok |-> FALSE, error |-> outcome.value]

---------------------------------------------------------------------------
(* The route handler POST                                                  *)

Json(status, body) == [status |-> status, uncaught |-> FALSE, body |-> body]

\* an exception that leaves the handler: the framework answers 500, no JSON
Uncaught == [status |-> 500, uncaught |-> TRUE, body |-> <<>>]

NoResponse == [status |-> 0, uncaught |-> FALSE, body |-> <<>>]

\* error.message: reading it off null or undefined throws a TypeError
\* (reported as the tag "throws"); a primitive has no message
messageOf(error) ==
  CASE error.t \in {"null", "undefined"} -> [t |-> "throws"]
    [] error.t = "error" -> error.message
    [] OTHER -> Undef

\* error.message?.includes(word): undefined for a missing message, a TypeError
\* (includes is not a function) for a message that is no string
messageIncludes(message, word) ==
  message.t = "string" /\ includes(message.v, word)

\* the credential rule: error.message?.includes("API_KEY")
isInvalidKey(message) == messageIncludes(message, "API_KEY")

\* variant: the quota rule without its "rate limit" half
isRateLimitQuotaOnly(message) == messageIncludes(message, "quota")

\* the quota rule: includes("quota") || includes("rate limit")
isRateLimit(message) ==
  messageIncludes(message, "quota") \/ messageIncludes(message, "rate limit")

\* variant: the quota rule tried before the credential rule
categoryQuotaFirst(message) ==
  IF isRateLimit(message) THEN 429 ELSE IF isInvalidKey(message) THEN 401 ELSE 500

\* the order of the three returns of the catch block
category(message) ==
  IF isInvalidKey(message) THEN 401 ELSE IF isRateLimit(message) THEN 429 ELSE 500

\* variant: details without the "Unknown error" fallback
detailsNoFallback(message) == IF message.t = "string" THEN message.v ELSE ""

\* details: error.message || "Unknown error"
details(message) == IF Truthy(message) THEN message.v ELSE "Unknown error"

\* the catch block: the classification of the caught value
catchBlock(error) ==
  LET message == messageOf(error)
  IN  IF message.t \notin {"string", "undefined", "null"} THEN Uncaught
      ELSE CASE category(message) = 401 ->
                  Json(401,
                    [error |-> "Invalid API key. Please check your GOOGLE_GEMINI_API_KEY in .env.local",
                     instructions |-> "Get a new API key from https://aistudio.google.com/apikey"])
             [] category(message) = 429 ->
                  Json(429,
                    [error |-> "API rate limit exceeded. Please try again later or upgrade your plan.",
                     details |-> message.v])
             [] OTHER ->
                  Json(500,
                    [error |-> "Failed to process image with Gemini API",
                     details |-> details(message),
                     suggestion |-> "Please try again or use Basic OCR mode"])

\* variant: the prefix built without the image/jpeg default
imageDataNoDefault(image, mimeType) ==
  IF includes(image.v, ",")
  THEN image.v
  ELSE "data:" \o (IF mimeType.t = "string" THEN mimeType.v ELSE "undefined")
         \o ";base64," \o image.v

\* the data URL handed to the model
imageData(image, mimeType) ==
  IF includes(image.v, ",")
  THEN image.v
  ELSE "data:" \o (IF Truthy(mimeType) THEN mimeType.v ELSE "image/jpeg")
         \o ";base64," \o image.v

\* variant: the image check as image === undefined
postBeginUndefinedOnly(body) ==
  IF body.kind = "invalid"
  THEN [called |-> FALSE,
        resp |-> catchBlock(ErrorObj(Str("Unexpected end of JSON input")))]
  ELSE IF body.kind = "null"
  THEN [called |-> FALSE,
        resp |-> catchBlock(ErrorObj(Str("Cannot destructure property 'image' of null")))]
  ELSE IF body.image.t = "undefined"
  THEN [called |-> FALSE, resp |-> Json(400, [error |-> "No image provided"])]
  ELSE IF body.image.t # "string"
  THEN [called |-> FALSE,
        resp |-> catchBlock(ErrorObj(Str("image.includes is not a function")))]
  ELSE [called |-> TRUE, imageData |-> imageData(body.image, body.mimeType)]

\* POST up to the provider call: the response when it returns before the
\* call, or the image it calls the provider with.  request.json() rejects a
\* body that is not JSON, and destructuring the JSON value null throws
postBegin(body) ==
  IF body.kind = "invalid"
  THEN [called |-> FALSE,
        resp |-> catchBlock(ErrorObj(Str("Unexpected end of JSON input")))]
  ELSE IF body.kind = "null"
  THEN [called |-> FALSE,
        resp |-> catchBlock(ErrorObj(Str("Cannot destructure property 'image' of null")))]
  ELSE IF ~Truthy(body.image)
  THEN [called |-> FALSE, resp |-> Json(400, [error |-> "No image provided"])]
  ELSE IF body.image.t # "string"
  THEN [called |-> FALSE,
        resp |-> catchBlock(ErrorObj(Str("image.includes is not a function")))]
  ELSE [called |-> TRUE, imageData |-> imageData(body.image, body.mimeType)]

\* variant: the response built without the check of the returned object
postFinishNoObjectCheck(schema, outcome) ==
  LET r == generateObject(schema, outcome)
  IN  IF ~r.ok THEN catchBlock(r.error)
      ELSE Json(200, [success |-> TRUE, data |-> r.object])

\* POST from the provider call's settling to the response
postFinish(schema, outcome) ==
  LET r == generateObject(schema, outcome)
  IN  IF ~r.ok THEN catchBlock(r.error)
      ELSE IF ~Truthy(r.object)
      THEN Json(500, [error |-> "Failed to extract data from image"])
      ELSE Json(200, [success |-> TRUE, data |-> r.object])

---------------------------------------------------------------------------
(* Inputs                                                                  *)

\* the files the user can pick or drop
File(name, type, base64) == [t |-> "file", name |-> name, type |-> type, base64 |-> base64]
Files ==
  {File("uber.png", "image/png", "QUJD"),
   File("hotel.jpg", "image/jpeg", "REVG"),
   File("notes.pdf", "application/pdf", "R0hJ")}

\* FileReader.readAsDataURL
readAsDataURL(file) == "data:" \o file.type \o ";base64," \o file.base64

\* the request bodies a caller of the route can send: a body that is not
\* JSON, the JSON value null, and objects whose image is absent, falsy, a
\* string or a number
Images ==
  {Undef, Null, Str(""), Num(0), Num(7), Str("QUJD"),
   Str("data:image/png;base64,QUJD"), Str("QUJD,REVG")}
MimeTypes == {Undef, Str(""), Str("image/png")}
NotJson == [kind |-> "invalid", image |-> Undef, mimeType |-> Undef]
JsonNull == [kind |-> "null", image |-> Undef, mimeType |-> Undef]
JsonObject(image, mimeType) == [kind |-> "object", image |-> image, mimeType |-> mimeType]
Bodies ==
  {NotJson, JsonNull} \cup {JsonObject(i, m) : i \in Images, m \in MimeTypes}

\* what the model can answer for the expense prompt and the document prompt
Candidates ==
  {Obj([bill_no |-> Str("INV-1"), amount |-> Str("245.00"), purpose |-> Str("Conveyance"),
        raw_text |-> Str("UBER 245.00")]),
   Obj([bill_no |-> Str("N/A"), amount |-> Str("0"), purpose |-> Str("Other"),
        raw_text |-> Str("")]),
   Obj([bill_no |-> Str("INV-1"), amount |-> Str(""), purpose |-> Str("Food"),
        raw_text |-> Str("CAFE")]),
   Obj([bill_no |-> Str(""), amount |-> Str("90"), purpose |-> Str("Hotel"),
        raw_text |-> Str("INN 90")]),
   Obj([bill_no |-> Str("INV-1"), amount |-> Str("245.00"), purpose |-> Str("Taxi"),
        raw_text |-> Str("UBER 245.00")]),
   Obj([bill_no |-> Str("INV-1"), amount |-> Str("245.00"), purpose |-> Null,
        raw_text |-> Str("UBER 245.00")]),
   Obj([bill_no |-> Str("INV-1"), purpose |-> Str("Bus"), raw_text |-> Str("BUS")]),
   Obj([bill_no |-> Str("INV-1"), amount |-> Num(245), purpose |-> Str("Train"),
        raw_text |-> Str("IRCTC 245")]),
   Obj([document_type |-> Str("receipt"), raw_text |-> Str("UBER 245.00")]),
   Obj([document_type |-> Str("receipt"), raw_text |-> Str("UBER 245.00"),
        structured_data |-> Obj([total |-> Str("245.00")])]),
   Obj([bill_no |-> Str(" inv-007 "), amount |-> Str("$12.50"), purpose |-> Str("Food"),
        raw_text |-> Str("CAFE $12.50"), note |-> Str("tip")]),
   Obj([raw_text |-> Str("UBER 245.00")])}

\* what the provider call can throw
Thrown ==
  {ErrorObj(Str("API key is missing. Set the GOOGLE_GENERATIVE_AI_API_KEY environment variable.")),
   ErrorObj(Str("API key not valid. Please pass a valid API key.")),
   ErrorObj(Str("You exceeded your current quota")),
   ErrorObj(Str("rate limit reached")),
   ErrorObj(Str("API_KEY quota exceeded")),
   ErrorObj(Str("fetch failed")),
   ErrorObj(Str("")),
   ErrorObj(Undef),
   ErrorObj(Null),
   ErrorObj(Num(42)),
   Null,
   Undef}

Outcomes ==
  {[kind |-> "text", out |-> c, value |-> Undef] : c \in Candidates}
    \cup {[kind |-> "noObject", out |-> Undef, value |-> Undef]}
    \cup {[kind |-> "throw", out |-> Undef, value |-> v] : v \in Thrown}

NoOutcome == [kind |-> "none", out |-> Undef, value |-> Undef]

\* the route deployed at /api/extract: the expense route or route.ts
Deployments == {"expense", "route"}
schemaOf(d) == IF d = "expense" THEN extractedDataSchema ELSE extractedDataSchemaRoute

---------------------------------------------------------------------------
(* State                                                                   *)

VARIABLES
  component,       \* the ImageOCR version rendered: AI-only or two-mode
  mode,            \* useState<ExtractionMode> (two-mode version)
  image,           \* useState<File | null>
  previewUrl,      \* useState<string | null>
  text,            \* useState<string>
  structuredData,  \* useState<StructuredData | null>
  progress,        \* useState<number> (two-mode version)
  status,          \* useState<string>
  isProcessing,    \* useState<boolean>
  error,           \* useState<string | null>
  apiKeyMissing,   \* useState<boolean>
  attempt,         \* the performAIExtraction or performOCR call in flight:
                   \* where it is suspended, the image its closure captured,
                   \* and the requests it has sent
  worker,          \* the Tesseract worker of performOCR
  producedFor,     \* history: the image of the attempt that set the result
                   \* (structuredData and text) and the error now held, and
                   \* the status of the response the error was read from
  deployed,        \* the route serving /api/extract
  caller,          \* who sends the requests of this run: the page, or
                   \* another HTTP client
  gw               \* the POST invocation: request, provider call, response

vars ==
  <<component, mode, image, previewUrl, text, structuredData, progress, status,
    isProcessing, error, apiKeyMissing, attempt, worker, producedFor, deployed,
    caller, gw>>

session ==
  <<component, mode, image, previewUrl, text, structuredData, progress, status,
    isProcessing, error, apiKeyMissing, attempt, worker, producedFor, caller>>

\* invocations of POST share no state, so the requests of the page and the
\* requests of other clients are explored in separate runs
Callers == {"page", "direct"}

\* the two versions of ImageOCR
Components == {"aiOnly", "twoMode"}

NoAttempt == [pc |-> "none", image |-> Null, sent |-> 0]

\* nothing displayed came out of an attempt
NoProduct == [result |-> Null, error |-> Null, status |-> 0]

GwIdle ==
  [pc |-> "idle", origin |-> "none", body |-> NotJson, imageData |-> "",
   outcome |-> NoOutcome, calls |-> 0, resp |-> NoResponse]

Init ==
  /\ component \in Components
  /\ mode = "ai"
  /\ image = Null
  /\ previewUrl = Null
  /\ text = ""
  /\ structuredData = Null
  /\ progress = 0
  /\ status = ""
  /\ isProcessing = FALSE
  /\ error = Null
  /\ apiKeyMissing = FALSE
  /\ attempt = NoAttempt
  /\ worker = "none"
  /\ producedFor = NoProduct
  /\ deployed \in Deployments
  /\ caller \in Callers
  /\ gw = GwIdle

---------------------------------------------------------------------------
(* The route: one invocation of POST                                       *)

\* the request arrives: request.json(), the image check, the data URL, and
\* the call of generateObject, on which the handler suspends
receive(origin, body) ==
  LET b == postBegin(body)
  IN  gw' = IF b.called
            THEN [pc |-> "calling", origin |-> origin, body |-> body,
                  imageData |-> b.imageData, outcome |-> NoOutcome, calls |-> 1,
                  resp |-> NoResponse]
            ELSE [pc |-> "done", origin |-> origin, body |-> body,
                  imageData |-> "", outcome |-> NoOutcome, calls |-> 0,
                  resp |-> b.resp]

\* a caller other than the page sends a request
DirectRequest ==
  /\ caller = "direct"
  /\ gw.pc = "idle"
  /\ \E body \in Bodies : receive("direct", body)
  /\ UNCHANGED <<session, deployed>>

\* variant: a failed provider call is made once more before the handler answers
ProviderSettlesRetrying ==
  /\ gw.pc = "calling"
  /\ \E outcome \in Outcomes :
       gw' = IF ~generateObject(schemaOf(deployed), outcome).ok /\ gw.calls = 1
             THEN [gw EXCEPT !.calls = 2]
             ELSE [gw EXCEPT !.pc = "done", !.outcome = outcome,
                             !.resp = postFinish(schemaOf(deployed), outcome)]
  /\ UNCHANGED <<session, deployed>>

\* the provider call settles and the handler runs to its response
ProviderSettles ==
  /\ gw.pc = "calling"
  /\ \E outcome \in Outcomes :
       gw' = [gw EXCEPT !.pc = "done", !.outcome = outcome,
                        !.resp = postFinish(schemaOf(deployed), outcome)]
  /\ UNCHANGED <<session, deployed>>

\* the caller other than the page takes its response
DirectResponse ==
  /\ gw.pc = "done"
  /\ gw.origin = "direct"
  /\ gw' = GwIdle
  /\ UNCHANGED <<session, deployed>>

---------------------------------------------------------------------------
(* The page: ImageOCR                                                      *)

\* variant: a file of another type also clears the result held
processFileClearing ==
  /\ TRUE
  /\  \E file \in Files :
       /\ caller = "page"
       /\ IF ~startsWith(file.type, "image/")
          THEN /\ error' = Str("Please upload a valid image file.")
               /\ producedFor' = [producedFor EXCEPT !.error = Null, !.status = 0]
               /\ text' = ""
               /\ structuredData' = Null
               /\ UNCHANGED <<image, previewUrl, progress, status, apiKeyMissing>>
          ELSE /\ image' = file
               /\ previewUrl' = Str("blob:" \o file.name)
               /\ error' = Null
               /\ text' = ""
               /\ structuredData' = Null
               /\ progress' = 0
               /\ status' = ""
               /\ apiKeyMissing' = FALSE
               /\ producedFor' = NoProduct
       /\ UNCHANGED <<component, mode, isProcessing, attempt, worker, deployed, caller, gw>>

\* variant: no file taken while an attempt is processing
processFileWhenIdle ==
  /\ ~isProcessing
  /\  \E file \in Files :
       /\ caller = "page"
       /\ IF ~startsWith(file.type, "image/")
          THEN /\ error' = Str("Please upload a valid image file.")
               /\ producedFor' = [producedFor EXCEPT !.error = Null, !.status = 0]
               /\ UNCHANGED <<image, previewUrl, text, structuredData, progress,
                              status, apiKeyMissing>>
          ELSE /\ image' = file
               /\ previewUrl' = Str("blob:" \o file.name)
               /\ error' = Null
               /\ text' = ""
               /\ structuredData' = Null
               /\ progress' = 0
               /\ status' = ""
               /\ apiKeyMissing' = FALSE
               /\ producedFor' = NoProduct
       /\ UNCHANGED <<component, mode, isProcessing, attempt, worker, deployed, caller, gw>>

\* handleFileChange and handleDrop both hand the first file to processFile
processFile ==
  \E file \in Files :
    /\ caller = "page"
    /\ IF ~startsWith(file.type, "image/")
       THEN /\ error' = Str("Please upload a valid image file.")
            /\ producedFor' = [producedFor EXCEPT !.error = Null, !.status = 0]
            /\ UNCHANGED <<image, previewUrl, text, structuredData, progress,
                           status, apiKeyMissing>>
       ELSE /\ image' = file
            /\ previewUrl' = Str("blob:" \o file.name)
            /\ error' = Null
            /\ text' = ""
            /\ structuredData' = Null
            /\ progress' = 0
            /\ status' = ""
            /\ apiKeyMissing' = FALSE
            /\ producedFor' = NoProduct
    /\ UNCHANGED <<component, mode, isProcessing, attempt, worker, deployed, caller, gw>>

\* the mode buttons of the two-mode version
setMode ==
  /\ caller = "page"
  /\ component = "twoMode"
  /\ \E m \in {"ai", "basic"} : mode' = m
  /\ UNCHANGED <<component, image, previewUrl, text, structuredData, progress,
                 status, isProcessing, error, apiKeyMissing, attempt, worker,
                 producedFor, deployed, caller, gw>>

\* variant: the extract button rendered while an attempt is processing
extractAvailableWhileProcessing ==
  IF component = "aiOnly"
  THEN Truthy(image) /\ ~Truthy(structuredData)
  ELSE Truthy(image) /\ text = ""

\* the extract button is rendered when image && !structuredData &&
\* !isProcessing (two-mode version: image && !text && !isProcessing)
extractAvailable ==
  IF component = "aiOnly"
  THEN Truthy(image) /\ ~Truthy(structuredData) /\ ~isProcessing
  ELSE Truthy(image) /\ text = "" /\ ~isProcessing

\* performAIExtraction up to its first await (the file read); the two-mode
\* version reaches it through handleExtract when mode is "ai"
performAIExtraction ==
  /\ extractAvailable
  /\ mode = "ai"
  /\ Truthy(image)
  /\ isProcessing' = TRUE
  /\ error' = Null
  /\ text' = ""
  /\ structuredData' = Null
  /\ status' = "Uploading to Gemini AI..."
  /\ attempt' = [pc |-> "reading", image |-> image, sent |-> 0]
  /\ producedFor' = NoProduct
  /\ UNCHANGED <<component, mode, image, previewUrl, progress, apiKeyMissing,
                 worker, deployed, caller, gw>>

\* variant: the finally block leaving the status as it is
finallyKeepsStatus ==
  /\ isProcessing' = FALSE
  /\ progress' = 0
  /\ attempt' = NoAttempt
  /\ UNCHANGED status

\* the finally block (setProgress(0) in the two-mode version)
finally ==
  /\ isProcessing' = FALSE
  /\ progress' = 0
  /\ status' = ""
  /\ attempt' = NoAttempt

\* variant: the catch block with no finally block behind it
catchAttemptNoFinally(message) ==
  /\ error' = Str("Failed to connect to AI service. " \o message)
  /\ producedFor' = [producedFor EXCEPT !.error = attempt.image, !.status = 0]
  /\ attempt' = NoAttempt
  /\ UNCHANGED <<isProcessing, progress, status>>

\* the catch block: setError("Failed to connect to AI service. " + (err.message || ""))
catchAttempt(message) ==
  /\ error' = Str("Failed to connect to AI service. " \o message)
  /\ producedFor' = [producedFor EXCEPT !.error = attempt.image, !.status = 0]
  /\ finally

\* variant: the request sent without the status moving on
readResolvesNoStatus ==
  /\ attempt.pc = "reading"
  /\ attempt' = [attempt EXCEPT !.pc = "fetching", !.sent = @ + 1]
  /\ UNCHANGED <<component, mode, image, previewUrl, text, structuredData,
                 progress, status, isProcessing, error, apiKeyMissing, worker,
                 producedFor, deployed, caller, gw>>

\* base64Promise resolves: the status moves on and fetch sends the request
readResolves ==
  /\ attempt.pc = "reading"
  /\ status' = "Analyzing image with AI..."
  /\ attempt' = [attempt EXCEPT !.pc = "fetching", !.sent = @ + 1]
  /\ UNCHANGED <<component, mode, image, previewUrl, text, structuredData,
                 progress, isProcessing, error, apiKeyMissing, worker,
                 producedFor, deployed, caller, gw>>

\* reader.onerror rejects base64Promise with an event, which has no message
readRejects ==
  /\ attempt.pc = "reading"
  /\ catchAttempt("")
  /\ UNCHANGED <<component, mode, image, previewUrl, text, structuredData,
                 apiKeyMissing, worker, deployed, caller, gw>>

\* the request of the page reaches the route
fetchDelivered ==
  /\ attempt.pc = "fetching"
  /\ gw.pc = "idle"
  /\ receive("client", JsonObject(Str(readAsDataURL(attempt.image)),
                                   Str(attempt.image.type)))
  /\ attempt' = [attempt EXCEPT !.pc = "awaiting"]
  /\ UNCHANGED <<component, mode, image, previewUrl, text, structuredData,
                 progress, status, isProcessing, error, apiKeyMissing, worker,
                 producedFor, deployed, caller>>

\* fetch rejects: the network fails before any response
fetchRejects ==
  /\ attempt.pc = "fetching"
  /\ catchAttempt("Failed to fetch")
  /\ UNCHANGED <<component, mode, image, previewUrl, text, structuredData,
                 apiKeyMissing, worker, deployed, caller, gw>>

\* result.error and result.instructions of a parsed response body
field(body, name) == IF name \in DOMAIN body THEN Str(body[name]) ELSE Undef

\* variant: the raw text of the data not shown
textOfNone(data) == ""

\* extractedData.raw_text || ""
textOf(data) ==
  IF "raw_text" \in DOMAIN data.f /\ Truthy(data.f.raw_text)
  THEN data.f.raw_text.v ELSE ""

\* the response arrives: response.json(), the response.ok fork, finally
fetchResolves ==
  /\ attempt.pc = "awaiting"
  /\ gw.pc = "done"
  /\ gw.origin = "client"
  /\ gw' = GwIdle
  /\ LET response == gw.resp
         result == response.body
         ok == response.status \in 200..299
     IN  IF response.uncaught
         THEN /\ catchAttempt("Unexpected end of JSON input")
              /\ UNCHANGED <<text, structuredData, apiKeyMissing>>
         ELSE IF ~ok
         THEN /\ IF /\ Truthy(field(result, "error"))
                    /\ includes(result.error, "API key")
                 THEN /\ apiKeyMissing' = TRUE
                      /\ error' = Str(result.error \o " " \o
                                      (IF Truthy(field(result, "instructions"))
                                       THEN result.instructions ELSE ""))
                 ELSE /\ error' = IF Truthy(field(result, "error"))
                                  THEN Str(result.error)
                                  ELSE Str("Failed to extract text")
                      /\ UNCHANGED apiKeyMissing
              /\ producedFor' = [producedFor EXCEPT !.error = attempt.image,
                                                    !.status = response.status]
              /\ finally
              /\ UNCHANGED <<text, structuredData>>
         ELSE /\ structuredData' = result.data
              /\ text' = textOf(result.data)
              /\ producedFor' = [producedFor EXCEPT !.result = attempt.image]
              /\ finally
              /\ UNCHANGED <<error, apiKeyMissing>>
  /\ UNCHANGED <<component, mode, image, previewUrl, worker, deployed, caller>>

\* what Tesseract reports to the logger while the worker is created
LoadingStatuses == {"loading tesseract core", "initializing api"}

\* m.progress of a "recognizing text" report, in thousandths
ProgressReports == {0, 495, 1000}

\* Math.round(m.progress * 100), m.progress given in thousandths
roundedPercent(thousandths) == (thousandths + 5) \div 10

\* the texts recognition can give
OcrTexts == {"", "UBER 245.00"}

\* performOCR up to its first await (createWorker), reached through
\* handleExtract when mode is not "ai"
performOCR ==
  /\ extractAvailable
  /\ mode # "ai"
  /\ Truthy(image)
  /\ isProcessing' = TRUE
  /\ error' = Null
  /\ text' = ""
  /\ attempt' = [pc |-> "creating", image |-> image, sent |-> 0]
  /\ producedFor' = [producedFor EXCEPT !.error = Null, !.status = 0]
  /\ UNCHANGED <<component, mode, image, previewUrl, structuredData, progress,
                 status, apiKeyMissing, worker, deployed, caller, gw>>

\* the logger callback handed to createWorker
logger ==
  /\ \/ /\ attempt.pc = "creating"
        /\ \E s \in LoadingStatuses : status' = s
        /\ UNCHANGED progress
     \/ /\ attempt.pc = "recognizing"
        /\ \E p \in ProgressReports : progress' = roundedPercent(p)
        /\ status' = "Recognizing text..."
  /\ UNCHANGED <<component, mode, image, previewUrl, text, structuredData,
                 isProcessing, error, apiKeyMissing, attempt, worker,
                 producedFor, deployed, caller, gw>>

\* createWorker resolves and worker.recognize(image) starts
createWorkerResolves ==
  /\ attempt.pc = "creating"
  /\ attempt' = [attempt EXCEPT !.pc = "recognizing"]
  /\ worker' = "running"
  /\ UNCHANGED <<component, mode, image, previewUrl, text, structuredData,
                 progress, status, isProcessing, error, apiKeyMissing,
                 producedFor, deployed, caller, gw>>

\* variant: the catch block showing the error of the OCR engine
catchOCRExposing ==
  /\ error' = Str("Network error while fetching eng.traineddata")
  /\ producedFor' = [producedFor EXCEPT !.error = attempt.image, !.status = 0]
  /\ finally

\* the catch block of performOCR, and its finally block
catchOCR ==
  /\ error' = Str("Failed to extract text. Please try again with a clearer image.")
  /\ producedFor' = [producedFor EXCEPT !.error = attempt.image, !.status = 0]
  /\ finally

\* createWorker or worker.recognize rejects; a worker that was created is
\* not terminated on this path
ocrRejects ==
  /\ attempt.pc \in {"creating", "recognizing"}
  /\ catchOCR
  /\ UNCHANGED <<component, mode, image, previewUrl, text, structuredData,
                 apiKeyMissing, worker, deployed, caller, gw>>

\* worker.recognize resolves: setText(text), then worker.terminate() starts
recognizeResolves ==
  /\ attempt.pc = "recognizing"
  /\ \E t \in OcrTexts : text' = t
  /\ attempt' = [attempt EXCEPT !.pc = "terminating"]
  /\ producedFor' = [producedFor EXCEPT !.result = attempt.image]
  /\ UNCHANGED <<component, mode, image, previewUrl, structuredData, progress,
                 status, isProcessing, error, apiKeyMissing, worker, deployed, caller, gw>>

\* worker.terminate() resolves and the finally block runs
terminateResolves ==
  /\ attempt.pc = "terminating"
  /\ worker' = "terminated"
  /\ finally
  /\ UNCHANGED <<component, mode, image, previewUrl, text, structuredData,
                 error, apiKeyMissing, producedFor, deployed, caller, gw>>

\* the clear button of the preview
reset ==
  /\ Truthy(previewUrl)
  /\ image' = Null
  /\ previewUrl' = Null
  /\ text' = ""
  /\ structuredData' = Null
  /\ error' = Null
  /\ progress' = 0
  /\ apiKeyMissing' = FALSE
  /\ producedFor' = NoProduct
  /\ UNCHANGED <<component, mode, status, isProcessing, attempt, worker,
                 deployed, caller, gw>>

---------------------------------------------------------------------------

Next ==
  \/ DirectRequest
  \/ ProviderSettles
  \/ DirectResponse
  \/ processFile
  \/ setMode
  \/ performAIExtraction
  \/ readResolves
  \/ readRejects
  \/ fetchDelivered
  \/ fetchRejects
  \/ fetchResolves
  \/ performOCR
  \/ logger
  \/ createWorkerResolves
  \/ ocrRejects
  \/ recognizeResolves
  \/ terminateResolves
  \/ reset

Spec == Init /\ [][Next]_vars

\* every await of an attempt settles: the file read, the request and its
\* response (the provider call of the route included), worker creation,
\* recognition and termination each complete or fail
FairSpec ==
  /\ Spec
  /\ WF_vars(readResolves \/ readRejects)
  /\ WF_vars(fetchDelivered \/ fetchRejects)
  /\ WF_vars(ProviderSettles)
  /\ WF_vars(fetchResolves)
  /\ WF_vars(createWorkerResolves \/ recognizeResolves \/ ocrRejects)
  /\ WF_vars(terminateResolves)

---------------------------------------------------------------------------
(* Properties                                                              *)

\* the invocation gw holds has answered
answered == gw.pc = "done"

\* what generateObject did in the invocation gw holds
provider == generateObject(schemaOf(deployed), gw.outcome)

\* the provider call of the answered invocation threw an Error object, whose
\* message is a string or missing (undefined, null)
providerError ==
  /\ answered
  /\ gw.outcome.kind # "none"
  /\ ~provider.ok
  /\ provider.error.t = "error"
  /\ provider.error.message.t \in {"string", "undefined", "null"}

thrownMessage == provider.error.message

\* the message speaks of the credential: "API key", or the API_KEY of the
\* environment variable's name
MentionsCredential(m) ==
  m.t = "string" /\ (includes(m.v, "API key") \/ includes(m.v, "API_KEY"))

\* the message speaks of quota or rate limiting
MentionsQuota(m) ==
  m.t = "string" /\ (includes(m.v, "quota") \/ includes(m.v, "rate limit"))

NonEmpty(body, name) == name \in DOMAIN body /\ body[name] # ""

\* C1: last-selected-image-wins: the result (structuredData, text) and the
\* attempt error the session holds were produced by an attempt started for
\* the image now selected; a completion for an earlier image changes nothing
C1_LastSelectedImageWins ==
  /\ (Truthy(structuredData) \/ text # "") => producedFor.result = image
  /\ producedFor.error # Null => producedFor.error = image

\* C2: a request whose image is absent, null or empty is answered 400 with
\* exactly {error: "No image provided"}, and the provider is never called
C2_MissingImageIs400 ==
  (gw.pc # "idle" /\ gw.body.kind = "object" /\ ~Truthy(gw.body.image)) =>
    /\ gw.pc = "done"
    /\ gw.calls = 0
    /\ gw.resp = Json(400, [error |-> "No image provided"])

C2_Witness ==
  /\ answered
  /\ gw.body.kind = "object"
  /\ gw.body.image = Undef
  /\ gw.resp.status = 400

\* C3: a provider error whose message references the credential is answered
\* 401 with a non-empty error and non-empty instructions
C3_CredentialErrorIs401 ==
  (providerError /\ MentionsCredential(thrownMessage)) =>
    /\ gw.resp.status = 401
    /\ NonEmpty(gw.resp.body, "error")
    /\ NonEmpty(gw.resp.body, "instructions")

\* C4: a provider error whose message references quota or rate limiting, and
\* not the credential, is answered 429 with error and details
C4_QuotaErrorIs429 ==
  (providerError /\ MentionsQuota(thrownMessage) /\ ~MentionsCredential(thrownMessage)) =>
    /\ gw.resp.status = 429
    /\ DOMAIN gw.resp.body = {"error", "details"}
    /\ NonEmpty(gw.resp.body, "error")
    /\ gw.resp.body.details = thrownMessage.v

C4_Witness ==
  /\ providerError
  /\ thrownMessage = Str("rate limit reached")
  /\ gw.resp.status = 429

C6_GenericErrorIs500 ==
  (/\ providerError
   /\ ~messageIncludes(thrownMessage, "API_KEY")
   /\ ~messageIncludes(thrownMessage, "quota")
   /\ ~messageIncludes(thrownMessage, "rate limit")) =>
    /\ gw.resp.status = 500
    /\ DOMAIN gw.resp.body = {"error", "details", "suggestion"}
    /\ NonEmpty(gw.resp.body, "error")
    /\ NonEmpty(gw.resp.body, "details")
    /\ NonEmpty(gw.resp.body, "suggestion")
    /\ gw.resp.body.details =
         IF thrownMessage.t = "string" /\ thrownMessage.v # ""
         THEN thrownMessage.v ELSE "Unknown error"
    /\ includes(gw.resp.body.suggestion, "Basic OCR")

C6_Witness ==
  /\ providerError
  /\ thrownMessage \in {Undef, Null, Str("")}
  /\ gw.resp.status = 500
  /\ gw.resp.body.details = "Unknown error"

\* the response shapes of the interface
DocumentedShape(resp) ==
  /\ ~resp.uncaught
  /\ \/ resp.status = 200 /\ DOMAIN resp.body = {"success", "data"}
     \/ resp.status = 400 /\ DOMAIN resp.body = {"error"}
     \/ resp.status = 401 /\ DOMAIN resp.body = {"error", "instructions"}
     \/ resp.status = 429 /\ DOMAIN resp.body = {"error", "details"}
     \/ resp.status = 500 /\ DOMAIN resp.body \in {{"error"}, {"error", "details", "suggestion"}}

\* C7: the gateway is total: every request and every outcome of the
\* provider call is answered in a documented shape; no exception leaves POST
C7_GatewayTotal == answered => DocumentedShape(gw.resp)

\* C8: a model response that violates the output schema is answered 500 with
\* exactly {error: "Failed to extract data from image"}
C8_MalformedOutput ==
  (/\ answered
   /\ gw.outcome.kind = "text"
   /\ ~zodValid(schemaOf(deployed), gw.outcome.out)) =>
    gw.resp = Json(500, [error |-> "Failed to extract data from image"])

HasPurpose(data) ==
  /\ data.t = "object"
  /\ "purpose" \in DOMAIN data.f
  /\ data.f.purpose.t = "string"
  /\ data.f.purpose.v \in Purposes

\* C9: the data of every success response has purpose among the seven
\* literals, and so has every structuredData the session holds
C9_PurposeInEnum ==
  /\ (answered /\ gw.resp.status = 200) => HasPurpose(gw.resp.body.data)
  /\ Truthy(structuredData) => HasPurpose(structuredData)

NonEmptyString(data, name) ==
  /\ name \in DOMAIN data.f
  /\ data.f[name].t = "string"
  /\ data.f[name].v # ""

\* C10: in every success response of the expense route, amount and bill_no
\* are non-empty strings
C10_AmountAndBillNoNonEmpty ==
  (answered /\ deployed = "expense" /\ gw.resp.status = 200) =>
    /\ NonEmptyString(gw.resp.body.data, "amount")
    /\ NonEmptyString(gw.resp.body.data, "bill_no")

\* C11: a schema-conformant model output is answered 200 {success: true,
\* data}, and data has every field of the schema exactly as the model gave
\* it: present when given, the same string
C11_SuccessCarriesOutput ==
  (/\ answered
   /\ gw.outcome.kind = "text"
   /\ zodValid(schemaOf(deployed), gw.outcome.out)) =>
    /\ gw.resp.status = 200
    /\ ~gw.resp.uncaught
    /\ DOMAIN gw.resp.body = {"success", "data"}
    /\ gw.resp.body.success = TRUE
    /\ gw.resp.body.data.t = "object"
    /\ DOMAIN gw.resp.body.data.f =
         (DOMAIN schemaOf(deployed)) \cap (DOMAIN gw.outcome.out.f)
    /\ \A k \in DOMAIN gw.resp.body.data.f :
         gw.resp.body.data.f[k] = gw.outcome.out.f[k]

C11_Witness ==
  /\ answered
  /\ deployed = "expense"
  /\ gw.outcome.kind = "text"
  /\ zodValid(extractedDataSchema, gw.outcome.out)
  /\ gw.outcome.out.f.amount = Str("")
  /\ gw.resp.status = 200

\* a self-describing data URI: data:<mime>;base64,<payload>
IsDataURI(v) == startsWith(v, "data:") /\ includes(v, ";base64,")

\* the provider has been called in the invocation gw holds
called == gw.pc \in {"calling", "done"} /\ gw.calls = 1

C13_ModelGetsDataURI == called => IsDataURI(gw.imageData)

\* C15 as claimed: no result object is reported with the message "no data
\* returned"
C15_NoDataReturnedMessage ==
  (answered /\ gw.outcome.kind = "noObject") =>
    /\ gw.resp.status = 500
    /\ \E name \in DOMAIN gw.resp.body : includes(gw.resp.body[name], "no data returned")

\* C15: a provider call that returns no result object is answered 500 with
\* exactly {error: "Failed to extract data from image"}
C15_NoObjectIs500 ==
  (answered /\ gw.outcome.kind = "noObject") =>
    gw.resp = Json(500, [error |-> "Failed to extract data from image"])

C15_Witness ==
  /\ answered
  /\ gw.outcome.kind = "noObject"
  /\ gw.resp.status = 500

C16_RemediationOnlyForAuthMissing ==
  /\ (apiKeyMissing /\ Truthy(error)) => producedFor.status = 401
  /\ producedFor.error # Null => Truthy(error)

\* C17: isProcessing is true exactly while an attempt (AI or basic OCR) is in
\* flight, and the extract button is not rendered while one is, whatever
\* images were selected, resets made and modes switched meanwhile
C17_OneAttemptInFlight ==
  /\ isProcessing <=> attempt.pc # "none"
  /\ extractAvailable => attempt.pc = "none"

C17_Witness ==
  /\ component = "twoMode"
  /\ mode = "basic"
  /\ attempt.pc = "awaiting"
  /\ Truthy(image)
  /\ image # attempt.image
  /\ text = ""
  /\ ~extractAvailable

\* the idle session: nothing selected, nothing held, nothing running
Idle ==
  /\ image = Null
  /\ previewUrl = Null
  /\ text = ""
  /\ structuredData = Null
  /\ error = Null
  /\ ~apiKeyMissing
  /\ status = ""
  /\ ~isProcessing

\* C18: after reset, in any state, the session is idle: no image, no
\* result, no error, no remediation flag, status empty and not processing
C18_ResetMakesIdle == [][reset => Idle']_vars

ConnectFailure ==
  /\ error.t = "string"
  /\ startsWith(error.v, "Failed to connect to AI service.")
  /\ structuredData = Null
  /\ ~isProcessing

\* C20: an attempt that ends at the file read, at the fetch, or at a
\* response whose body is no JSON ends with the error "Failed to connect to
\* AI service. ...", structuredData null and isProcessing false; when it ends
\* at the file read it has sent no request and the route is left as it was
C20_TransportFailureIsData ==
  [][/\ (attempt.pc = "reading" /\ attempt'.pc = "none") =>
          (ConnectFailure' /\ attempt.sent = 0 /\ gw' = gw)
     /\ (attempt.pc = "fetching" /\ attempt'.pc = "none") => ConnectFailure'
     /\ (attempt.pc = "awaiting" /\ attempt'.pc = "none" /\ gw.resp.uncaught) =>
          ConnectFailure']_vars

C20_Witness ==
  /\ attempt.pc = "none"
  /\ error = Str("Failed to connect to AI service. Unexpected end of JSON input")
  /\ producedFor.error = image
  /\ structuredData = Null
  /\ ~isProcessing

\* C21: the stages of an AI attempt go forward only: the status becomes
\* "Uploading to Gemini AI..." only as an attempt starts, and "Analyzing
\* image with AI..." only as the file read of an attempt completes; the
\* request is sent in the step that makes the status analyzing; and the
\* attempt never goes back to a stage it has left
C21_StagesForwardOnly ==
  [][/\ (status' = "Uploading to Gemini AI..." /\ status' # status) =>
          (attempt.pc = "none" /\ attempt'.pc = "reading")
     /\ (status' = "Analyzing image with AI..." /\ status' # status) =>
          (attempt.pc = "reading" /\ attempt'.pc = "fetching")
     /\ attempt'.sent > attempt.sent =>
          (attempt.pc = "reading" /\ status' = "Analyzing image with AI...")
     /\ attempt.pc = "reading" => attempt'.pc \in {"reading", "fetching", "none"}
     /\ attempt.pc = "fetching" => attempt'.pc \in {"fetching", "awaiting", "none"}
     /\ attempt.pc = "awaiting" => attempt'.pc \in {"awaiting", "none"}]_vars

C21_Witness ==
  /\ attempt.pc = "awaiting"
  /\ attempt.sent = 1
  /\ status = "Analyzing image with AI..."
  /\ isProcessing

\* C22: a reset cancels the attempt in flight: its late completion is
\* ignored, so while no image is selected the session holds no
\* structuredData, no text and no error set by an attempt
C22_ResetCancelsAttempt ==
  image = Null =>
    /\ structuredData = Null
    /\ text = ""
    /\ producedFor.error = Null

\* C23: a valid image can be selected in every state of the page, and the
\* step that selects it leaves the new image with error null, text empty,
\* structuredData null, status empty and apiKeyMissing false
C23_SelectAnytime ==
  /\ [](caller = "page" =>
          \A file \in {f \in Files : startsWith(f.type, "image/")} :
            ENABLED (processFile /\ image' = file))
  /\ [][(image' # image /\ image' # Null) =>
          /\ image' \in Files
          /\ startsWith(image'.type, "image/")
          /\ previewUrl' # Null
          /\ error' = Null
          /\ text' = ""
          /\ structuredData' = Null
          /\ status' = ""
          /\ ~apiKeyMissing']_vars

C23_Witness ==
  /\ attempt.pc = "awaiting"
  /\ image # Null
  /\ image # attempt.image
  /\ status = ""
  /\ error = Null
  /\ structuredData = Null
  /\ ~apiKeyMissing

\* C24: every started attempt terminates once its awaits settle: isProcessing
\* leads to a state with isProcessing false, status empty and progress 0
C24_AttemptTerminates ==
  isProcessing ~> (~isProcessing /\ status = "" /\ progress = 0)

C24_Witness ==
  /\ component = "twoMode"
  /\ worker = "terminated"
  /\ attempt.pc = "none"
  /\ producedFor.result = image
  /\ text # ""
  /\ ~isProcessing
  /\ status = ""
  /\ progress = 0

\* C25: a request whose image is truthy but no string is answered 400
\* (invalid input), not 500, and the provider is not called for it
C25_BadImageIs400 ==
  (/\ gw.pc # "idle"
   /\ gw.body.kind = "object"
   /\ Truthy(gw.body.image)
   /\ gw.body.image.t # "string") =>
    /\ gw.pc = "done"
    /\ gw.calls = 0
    /\ gw.resp.status = 400

\* C26: in basic mode a failure of worker creation or of recognition ends
\* the attempt with the fixed error text, text empty, isProcessing false,
\* progress 0 and status empty, and starts nothing again
C26_OcrFailure ==
  [][(attempt.pc \in {"creating", "recognizing"} /\ attempt'.pc = "none") =>
       /\ error' = Str("Failed to extract text. Please try again with a clearer image.")
       /\ text' = ""
       /\ ~isProcessing'
       /\ progress' = 0
       /\ status' = ""
       /\ worker' = worker]_vars

C26_Witness ==
  /\ component = "twoMode"
  /\ mode = "basic"
  /\ attempt.pc = "none"
  /\ worker = "running"
  /\ error = Str("Failed to extract text. Please try again with a clearer image.")
  /\ producedFor.error = image
  /\ text = ""
  /\ ~isProcessing

\* C27: the session never holds a Success and a Failure together:
\* structuredData and error are not both non-null
C27_SuccessXorFailure == ~(Truthy(structuredData) /\ Truthy(error))

\* C28: a file whose type does not start with "image/" can be handed in in
\* every state of the page, and the step that puts up its error leaves the
\* image, preview, text, structuredData, status, isProcessing, apiKeyMissing
\* and the attempt in flight as they were
C28_InvalidFileOnlySetsError ==
  /\ [](caller = "page" =>
          ENABLED (processFile /\ error' = Str("Please upload a valid image file.")))
  /\ [][(/\ error' = Str("Please upload a valid image file.")
         /\ error' # error) =>
          UNCHANGED <<mode, image, previewUrl, text, structuredData, progress,
                      status, isProcessing, apiKeyMissing, attempt, worker, gw>>]_vars

C28_Witness ==
  /\ error = Str("Please upload a valid image file.")
  /\ attempt.pc = "awaiting"
  /\ image = attempt.image
  /\ isProcessing
  /\ status = "Analyzing image with AI..."

\* C29: no OCR worker outlives its attempt: once isProcessing is false
\* again, the worker that was created has been terminated
C29_WorkerTerminated == ~isProcessing => worker # "running"

====
